---- MODULE Spec2Model ----
(***************************************************************************)
(* Model of PCB/export/gencad_parser.py (class GencadParser): the pin      *)
(* position resolver _calculate_pin_positions with _rotate_point and       *)
(* _find_signal, the five CSV exporters, and parse() with _extract_section *)
(* and the line-by-line table builders.                                    *)
(*                                                                         *)
(* Spec starts from built tables and runs the resolver and the exporters;  *)
(* SpecParse starts from a text and runs parse() from its first line;      *)
(* SpecRerun adds a second call on the same object.                        *)
(*                                                                         *)
(* Strings the program inspects character by character (component names,   *)
(* pin names) are sequences of one-character strings; strings it only      *)
(* compares for equality (shape names, net names, layers) are TLA+ strings.*)
(* Coordinates are integers and rotations are multiples of 90 degrees, for  *)
(* which sine and cosine are exact.                                        *)
(***************************************************************************)
EXTENDS Integers, Sequences, FiniteSets, TLC

VARIABLES content, section, ln, current,
          shapes, components, signals, board_outline,
          pins, diode_pins, ci, pi, pc, export, passes

vars == <<content, section, ln, current,
          shapes, components, signals, board_outline,
          pins, diode_pins, ci, pi, pc, export, passes>>

(***************************************************************************)
(* Bounds of the input documents.                                          *)
(***************************************************************************)
MaxComps == 2
MaxPins == 3
MaxNodes == 3
MaxLines == 3
MaxSignalLines == 4
MaxPasses == 2

(***************************************************************************)
(* Generic helpers.                                                        *)
(***************************************************************************)
Range(s) == {s[i] : i \in 1..Len(s)}

Last(s) == s[Len(s)]

Front(s) == SubSeq(s, 1, Len(s) - 1)

SeqsUpTo(S, n) == UNION {[1..k -> S] : k \in 0..n}

\* dict.get(key, default)
Get(d, k, default) == IF k \in DOMAIN d THEN d[k] ELSE default

\* Code points of the characters that occur in names.
Ord(ch) ==
  CASE ch = "-" -> 45 [] ch = "0" -> 48 [] ch = "1" -> 49 [] ch = "2" -> 50
    [] ch = "9" -> 57 [] ch = ":" -> 58 [] ch = "D" -> 68 [] ch = "L" -> 76
    [] ch = "U" -> 85 [] ch = "X" -> 88

\* Python's str < str: lexicographic by code point, a proper prefix is smaller.
RECURSIVE StrLess(_, _)
StrLess(a, b) ==
  IF b = <<>> THEN FALSE
  ELSE IF a = <<>> THEN TRUE
  ELSE IF Ord(Head(a)) < Ord(Head(b)) THEN TRUE
  ELSE IF Ord(Head(a)) > Ord(Head(b)) THEN FALSE
  ELSE StrLess(Tail(a), Tail(b))

\* comp_name.startswith("L-D")
LDPrefix == <<"L", "-", "D">>

StartsWith(s, prefix) ==
  /\ Len(s) >= Len(prefix)
  /\ SubSeq(s, 1, Len(prefix)) = prefix

\* A prefix test that stops after "L-".
is_diode_short_prefix(comp_name) == StartsWith(comp_name, <<"L", "-">>)

is_diode(comp_name) == StartsWith(comp_name, LDPrefix)

(***************************************************************************)
(* _rotate_point: counter-clockwise rotation about the origin.  math.cos   *)
(* and math.sin of a multiple of 90 degrees are -1, 0 or 1.                *)
(***************************************************************************)
CosDeg(a) ==
  CASE a % 360 = 0 -> 1 [] a % 360 = 90 -> 0
    [] a % 360 = 180 -> -1 [] a % 360 = 270 -> 0

SinDeg(a) ==
  CASE a % 360 = 0 -> 0 [] a % 360 = 90 -> 1
    [] a % 360 = 180 -> 0 [] a % 360 = 270 -> -1

\* The rotation with the sign of the sine terms exchanged (clockwise).
rotate_point_clockwise(x, y, angle_deg) ==
  <<x * CosDeg(angle_deg) + y * SinDeg(angle_deg),
    y * CosDeg(angle_deg) - x * SinDeg(angle_deg)>>

rotate_point(x, y, angle_deg) ==
  <<x * CosDeg(angle_deg) - y * SinDeg(angle_deg),
    x * SinDeg(angle_deg) + y * CosDeg(angle_deg)>>

(***************************************************************************)
(* _find_signal: the first net, in the insertion order of self.signals,    *)
(* whose connection list holds the tuple (component, pin).                 *)
(***************************************************************************)
RECURSIVE FindSignalFrom(_, _, _, _)
FindSignalFrom(sigs, k, component, pin) ==
  IF k > Len(sigs) THEN "unconnected"
  ELSE IF <<component, pin>> \in Range(sigs[k].nodes) THEN sigs[k].name
  ELSE FindSignalFrom(sigs, k + 1, component, pin)

\* A lookup in which a later net overrides an earlier one.
find_signal_last(sigs, component, pin) ==
  LET hits == {k \in 1..Len(sigs) : <<component, pin>> \in Range(sigs[k].nodes)}
  IN IF hits = {} THEN "unconnected"
     ELSE sigs[CHOOSE k \in hits : \A j \in hits : j <= k].name

find_signal(sigs, component, pin) == FindSignalFrom(sigs, 1, component, pin)

(***************************************************************************)
(* The body of the pin loop of _calculate_pin_positions.                   *)
(***************************************************************************)
\* Mirroring read as "about the axis": mirror_x negates y, mirror_y negates x.
MirrorPointAboutAxis(x, y, mirror_x, mirror_y) ==
  <<IF mirror_y THEN -x ELSE x, IF mirror_x THEN -y ELSE y>>

MirrorPoint(x, y, mirror_x, mirror_y) ==
  <<IF mirror_x THEN -x ELSE x, IF mirror_y THEN -y ELSE y>>

PinLayer(layer, flip) ==
  IF flip THEN (IF layer = "TOP" THEN "BOTTOM" ELSE "TOP") ELSE layer

PinData(sigs, comp_name, comp_data, pin) ==
  LET m == MirrorPoint(pin.x, pin.y,
                       Get(comp_data, "mirror_x", FALSE),
                       Get(comp_data, "mirror_y", FALSE))
      r == rotate_point(m[1], m[2], Get(comp_data, "rotation", 0))
  IN [component |-> comp_name,
      pin_name  |-> pin.name,
      x         |-> comp_data.x + r[1],
      y         |-> comp_data.y + r[2],
      layer     |-> PinLayer(Get(pin, "layer", "TOP"),
                             Get(comp_data, "flip", FALSE)),
      signal    |-> find_signal(sigs, comp_name, pin.name)]

\* list.sort(key=lambda p: p['pin_name']): stable, ascending.
RECURSIVE InsertSorted(_, _)
InsertSorted(s, p) ==
  IF s = <<>> THEN <<p>>
  ELSE IF StrLess(p.pin_name, Head(s).pin_name) THEN <<p>> \o s
  ELSE <<Head(s)>> \o InsertSorted(Tail(s), p)

RECURSIVE SortByPinName(_)
SortByPinName(s) ==
  IF s = <<>> THEN <<>>
  ELSE InsertSorted(SortByPinName(Front(s)), Last(s))

\* The sorted pair with the (x, y) of its two elements exchanged.
SwapCoordinates(dp) ==
  LET s == SortByPinName(dp)
  IN <<[s[1] EXCEPT !.x = s[2].x, !.y = s[2].y],
       [s[2] EXCEPT !.x = s[1].x, !.y = s[1].y]>>

(***************************************************************************)
(* _parse_signals, lines 316-318: one NODE line under the current SIGNAL   *)
(* appends its (component, pin) tuple to self.signals[current_signal], a   *)
(* defaultdict(list) that keeps its keys in order of first insertion.      *)
(***************************************************************************)
\* A NODE line that starts the list of its net afresh.
ReplaceNodes(sigs, net, ep) ==
  IF \E k \in 1..Len(sigs) : sigs[k].name = net
  THEN [k \in 1..Len(sigs) |->
          IF sigs[k].name = net THEN [sigs[k] EXCEPT !.nodes = <<ep>>] ELSE sigs[k]]
  ELSE Append(sigs, [name |-> net, nodes |-> <<ep>>])

AppendNode(sigs, net, ep) ==
  IF \E k \in 1..Len(sigs) : sigs[k].name = net
  THEN [k \in 1..Len(sigs) |->
          IF sigs[k].name = net
          THEN [sigs[k] EXCEPT !.nodes = Append(@, ep)]
          ELSE sigs[k]]
  ELSE Append(sigs, [name |-> net, nodes |-> <<ep>>])

RECURSIVE SignalsOf(_)
SignalsOf(lines) ==
  IF lines = <<>> THEN <<>>
  ELSE AppendNode(SignalsOf(Front(lines)), Last(lines)[1], Last(lines)[2])

(***************************************************************************)
(* Input documents.  A document is the content of the tables after the     *)
(* four table builders have run: shapes, components (in insertion order),  *)
(* signals (in insertion order) and the board outline.                     *)
(***************************************************************************)
U1 == <<"U", "1">>
D1 == <<"L", "-", "D", "1">>
LX == <<"L", "-", "X">>
CompNames == {U1, D1, LX}

P1 == [name |-> <<"1">>, x |-> 2, y |-> 3, layer |-> "TOP"]
P2 == [name |-> <<"2">>, x |-> -1, y |-> 4, layer |-> "BOTTOM"]
P3 == [name |-> <<"1", "0">>, x |-> 0, y |-> -5, layer |-> "INNER"]
PinCatalog == {P1, P2, P3}

Placements == {<<10, 10>>, <<-4, 7>>}
Rotations == {0, 90, 180, 270, -90}
NetNames == {"N1", "N2", "unconnected"}
Endpoints == {<<U1, <<"1">>>>, <<D1, <<"2">>>>, <<U1, <<"9">>>>}
BoardOutlines == {<<>>, <<<<0, 0, 10, 0>>, <<10, 0, 10, -5>>>>}

NoShapes == [s \in {} |-> <<>>]
OneShape(ps) == [s \in {"S1"} |-> ps]

Flags(mx, my, fl) == [mirror_x |-> mx, mirror_y |-> my, flip |-> fl]
NoFlags == Flags(FALSE, FALSE, FALSE)
Placed(d, at) == d @@ [x |-> at[1], y |-> at[2]]
ShapeRef(d, s) == d @@ [shape |-> s]
Rotated(d, r) == d @@ [rotation |-> r]
Layered(d, l) == d @@ [layer |-> l]

Doc(sh, cs, sg, bo) ==
  [shapes |-> sh, components |-> cs, signals |-> sg, board_outline |-> bo]

\* One placed component under every mirror/rotation combination.
GeometryDocs ==
  LET base == {Placed(ShapeRef(Flags(mx, my, FALSE), "S1"), at) :
                 mx \in BOOLEAN, my \in BOOLEAN, at \in Placements}
      datas == base \cup {Rotated(d, r) : d \in base, r \in Rotations}
  IN {Doc(OneShape(ps), <<[name |-> n, data |-> d]>>, <<>>, <<>>) :
        ps \in {<<P1>>, <<P2>>, <<P3>>, <<P1, P2>>},
        n \in {U1, D1}, d \in datas}

\* One placed component, flipped or not, with or without a LAYER of its own.
LayerDocs ==
  LET base == {Placed(ShapeRef(Flags(FALSE, FALSE, fl), "S1"), <<10, 10>>) :
                 fl \in BOOLEAN}
      datas == base \cup {Layered(d, l) : d \in base, l \in {"TOP", "BOTTOM"}}
  IN {Doc(OneShape(ps), <<[name |-> n, data |-> d]>>, <<>>, bo) :
        ps \in SeqsUpTo(PinCatalog, MaxPins),
        n \in {U1, D1}, d \in datas, bo \in BoardOutlines}

\* Up to MaxComps components: without SHAPE, with an unknown SHAPE, with a
\* known SHAPE but no PLACE, or complete.
StructureDocs ==
  LET datas == {NoFlags,
                ShapeRef(NoFlags, "S9"),
                ShapeRef(NoFlags, "S1"),
                Placed(ShapeRef(NoFlags, "S1"), <<10, 10>>)}
      comps == {cs \in SeqsUpTo([name : CompNames, data : datas], MaxComps) :
                  \A i, j \in 1..Len(cs) : cs[i].name = cs[j].name => i = j}
      tables == {NoShapes} \cup {OneShape(ps) : ps \in SeqsUpTo({P1, P2}, MaxPins)}
  IN {Doc(sh, cs, <<>>, <<>>) : sh \in tables, cs \in comps}

\* Two complete components and up to MaxNodes NODE lines.
NetDocs ==
  LET data == Placed(ShapeRef(NoFlags, "S1"), <<10, 10>>)
      cs == <<[name |-> U1, data |-> data], [name |-> D1, data |-> data]>>
  IN {Doc(OneShape(<<P1, P2>>), cs, SignalsOf(lines), <<>>) :
        lines \in SeqsUpTo(NetNames \X Endpoints, MaxNodes)}

\* Two complete components whose four pins are each listed by N1, by N2 or by
\* no net, one NODE line per listed pin.
FanoutEndpoints ==
  <<<<U1, <<"1">>>>, <<U1, <<"2">>>>, <<LX, <<"1">>>>, <<LX, <<"2">>>>>>

FanoutDocs ==
  LET data == Placed(ShapeRef(NoFlags, "S1"), <<10, 10>>)
      cs == <<[name |-> U1, data |-> data], [name |-> LX, data |-> data]>>
      Lines(f) == [i \in 1..Len(FanoutEndpoints) |-> <<f[i], FanoutEndpoints[i]>>]
      Listed(f) == SelectSeq(Lines(f), LAMBDA l : l[1] # "-")
  IN {Doc(OneShape(<<P1, P2>>), cs, SignalsOf(Listed(f)), <<>>) :
        f \in [1..Len(FanoutEndpoints) -> {"-", "N1", "N2"}]}

Documents ==
  GeometryDocs \cup LayerDocs \cup StructureDocs \cup NetDocs \cup FanoutDocs

NoExport == [name |-> "none", ok |-> TRUE, rows |-> <<>>]

\* current_shape, current_component, current_signal: None or a name.
NoCurrent == [set |-> FALSE]
Current(n) == [set |-> TRUE, name |-> n]

\* The tables as the builders left them; no text is being read.
Init ==
  \E d \in Documents :
    /\ content = <<>>
    /\ section = <<>>
    /\ ln = 1
    /\ current = NoCurrent
    /\ passes = <<>>
    /\ shapes = d.shapes
    /\ components = d.components
    /\ signals = d.signals
    /\ board_outline = d.board_outline
    /\ pins = <<>>
    /\ diode_pins = <<>>
    /\ ci = 1
    /\ pi = 1
    /\ pc = "resolve"
    /\ export = NoExport

(***************************************************************************)
(* _calculate_pin_positions, one step per pass of its loops.               *)
(***************************************************************************)
tables == <<shapes, components, signals, board_outline>>

\* What a builder is reading: the text, the section, the line, the block.
reader == <<content, section, ln, current>>

InLoop == pc = "resolve" /\ ci <= Len(components)

HasShape(c) == "shape" \in DOMAIN c.data

KnownShape(c) == HasShape(c) /\ c.data.shape \in DOMAIN shapes

HasPlace(c) == "x" \in DOMAIN c.data /\ "y" \in DOMAIN c.data

\* if 'shape' not in comp_data: continue
SkipNoShape ==
  /\ InLoop
  /\ ~HasShape(components[ci])
  /\ ci' = ci + 1
  /\ UNCHANGED <<reader, passes, tables, pins, diode_pins, pi, pc, export>>

\* if shape_name not in self.shapes: continue
SkipUnknownShape ==
  /\ InLoop
  /\ HasShape(components[ci])
  /\ ~KnownShape(components[ci])
  /\ ci' = ci + 1
  /\ UNCHANGED <<reader, passes, tables, pins, diode_pins, pi, pc, export>>

\* comp_data['x'] of a component that never had a PLACE line: KeyError,
\* which parse() logs and re-raises.
RaiseKeyError ==
  /\ InLoop
  /\ KnownShape(components[ci])
  /\ ~HasPlace(components[ci])
  /\ pc' = "raised"
  /\ UNCHANGED <<reader, passes, tables, pins, diode_pins, ci, pi, export>>

InPinLoop ==
  /\ InLoop
  /\ KnownShape(components[ci])
  /\ HasPlace(components[ci])

ShapePins(c) == shapes[c.data.shape]

\* One pass of "for pin in self.shapes[shape_name]['pins']".  comp_layer is
\* read from the component (line 347) and never used.
ResolvePin ==
  /\ InPinLoop
  /\ pi <= Len(ShapePins(components[ci]))
  /\ LET c == components[ci]
         pin_data == PinData(signals, c.name, c.data, ShapePins(c)[pi])
     IN IF is_diode(c.name)
        THEN diode_pins' = Append(diode_pins, pin_data) /\ pins' = pins
        ELSE pins' = Append(pins, pin_data) /\ diode_pins' = diode_pins
  /\ pi' = pi + 1
  /\ UNCHANGED <<reader, passes, tables, ci, pc, export>>

PinLoopDone == InPinLoop /\ pi > Len(ShapePins(components[ci]))

\* if is_diode and len(diode_pins) == 2: sort, swap, extend
SwapDiodePins ==
  /\ PinLoopDone
  /\ is_diode(components[ci].name)
  /\ Len(diode_pins) = 2
  /\ pins' = pins \o SwapCoordinates(diode_pins)
  /\ diode_pins' = <<>>
  /\ ci' = ci + 1
  /\ pi' = 1
  /\ UNCHANGED <<reader, passes, tables, pc, export>>

\* elif is_diode: extend
ExtendDiodePins ==
  /\ PinLoopDone
  /\ is_diode(components[ci].name)
  /\ Len(diode_pins) # 2
  /\ pins' = pins \o diode_pins
  /\ diode_pins' = <<>>
  /\ ci' = ci + 1
  /\ pi' = 1
  /\ UNCHANGED <<reader, passes, tables, pc, export>>

\* A component that is no diode has appended its pins in the pin loop.
NextComponent ==
  /\ PinLoopDone
  /\ ~is_diode(components[ci].name)
  /\ ci' = ci + 1
  /\ pi' = 1
  /\ UNCHANGED <<reader, passes, tables, pins, diode_pins, pc, export>>

\* The component loop is exhausted: parse() returns.  passes records the
\* resolved-pin list as it stands at the end of each completed pass.
ParseDone ==
  /\ pc = "resolve"
  /\ ci > Len(components)
  /\ pc' = "parsed"
  /\ passes' = Append(passes, pins)
  /\ UNCHANGED <<reader, tables, pins, diode_pins, ci, pi, export>>

Resolve ==
  \/ SkipNoShape
  \/ SkipUnknownShape
  \/ RaiseKeyError
  \/ ResolvePin
  \/ SwapDiodePins
  \/ ExtendDiodePins
  \/ NextComponent
  \/ ParseDone

(***************************************************************************)
(* The exporters.  export holds the table the last exporter call wrote (or *)
(* the rows written before it raised) and whether the call returned.       *)
(***************************************************************************)
Parsed == pc = "parsed"

CsvFields == {"component", "pin_name", "x", "y", "layer", "signal"}

\* csv.DictWriter.writerow raises ValueError for a dict with a key that is
\* not in fieldnames (extrasaction defaults to 'raise').
Writable(row, fieldnames) == DOMAIN row \subseteq fieldnames

RECURSIVE WrittenRows(_, _)
WrittenRows(rows, fieldnames) ==
  IF rows = <<>> \/ ~Writable(Head(rows), fieldnames) THEN <<>>
  ELSE <<Head(rows)>> \o WrittenRows(Tail(rows), fieldnames)

Written(name, rows, fieldnames) ==
  [name |-> name,
   ok   |-> \A i \in 1..Len(rows) : Writable(rows[i], fieldnames),
   rows |-> WrittenRows(rows, fieldnames)]

\* export_to_csv
ExportToCsv ==
  /\ Parsed
  /\ export' = Written("pins", pins, CsvFields)
  /\ UNCHANGED <<reader, passes, tables, pins, diode_pins, ci, pi, pc>>

\* export_connections_to_csv: signal_pins, a defaultdict keyed in order of
\* first appearance among the pins.
\* A grouping that keeps the pins without a net as a group of their own.
RECURSIVE SignalsSeenAll(_)
SignalsSeenAll(ps) ==
  IF ps = <<>> THEN <<>>
  ELSE LET seen == SignalsSeenAll(Front(ps))
           s == Last(ps).signal
       IN IF s \in Range(seen) THEN seen ELSE Append(seen, s)

RECURSIVE SignalsSeen(_)
SignalsSeen(ps) ==
  IF ps = <<>> THEN <<>>
  ELSE LET seen == SignalsSeen(Front(ps))
           s == Last(ps).signal
       IN IF s = "unconnected" \/ s \in Range(seen) THEN seen
          ELSE Append(seen, s)

PinsOfSignal(ps, s) == SelectSeq(ps, LAMBDA p : p.signal = s)

Connection(s, pin1, pin2) ==
  [signal |-> s,
   component1 |-> pin1.component, pin1 |-> pin1.pin_name,
   x1 |-> pin1.x, y1 |-> pin1.y, layer1 |-> pin1.layer,
   component2 |-> pin2.component, pin2 |-> pin2.pin_name,
   x2 |-> pin2.x, y2 |-> pin2.y, layer2 |-> pin2.layer]

\* for i in range(len(pins)): for j in range(i+1, len(pins))
RECURSIVE PairsFrom(_, _, _, _)
PairsFrom(s, ps, i, j) ==
  IF i > Len(ps) THEN <<>>
  ELSE IF j > Len(ps) THEN PairsFrom(s, ps, i + 1, i + 2)
  ELSE <<Connection(s, ps[i], ps[j])>> \o PairsFrom(s, ps, i, j + 1)

RECURSIVE ConnectionsOf(_, _)
ConnectionsOf(ps, names) ==
  IF names = <<>> THEN <<>>
  ELSE PairsFrom(Head(names), PinsOfSignal(ps, Head(names)), 1, 2)
         \o ConnectionsOf(ps, Tail(names))

Connections(ps) == ConnectionsOf(ps, SignalsSeen(ps))

ExportConnectionsToCsv ==
  /\ Parsed
  /\ export' = [name |-> "connections", ok |-> TRUE, rows |-> Connections(pins)]
  /\ UNCHANGED <<reader, passes, tables, pins, diode_pins, ci, pi, pc>>

\* export_netlist_to_csv
\* f"{component}:{pin}"
Label(component, pin) == component \o <<":">> \o pin

RECURSIVE JoinWith(_, _)
JoinWith(sep, strs) ==
  IF strs = <<>> THEN <<>>
  ELSE IF Len(strs) = 1 THEN strs[1]
  ELSE strs[1] \o sep \o JoinWith(sep, Tail(strs))

HasPin(ps, component, pin) ==
  \E i \in 1..Len(ps) : ps[i].component = component /\ ps[i].pin_name = pin

\* Every endpoint of a net, found among self.pins or not.
DeclaredNodes(ps, nodes) == nodes

\* The endpoints of a net for which the scan of self.pins finds pin data.
FoundNodes(ps, nodes) ==
  SelectSeq(nodes, LAMBDA n : HasPin(ps, n[1], n[2]))

NetlistRow(ps, net) ==
  LET found == FoundNodes(ps, net.nodes)
  IN [signal |-> net.name,
      pin_count |-> Len(found),
      components |-> JoinWith(<<",", " ">>,
                        [i \in 1..Len(found) |-> Label(found[i][1], found[i][2])])]

Netlist(ps, sigs) == [k \in 1..Len(sigs) |-> NetlistRow(ps, sigs[k])]

ExportNetlistToCsv ==
  /\ Parsed
  /\ export' = [name |-> "netlist", ok |-> TRUE, rows |-> Netlist(pins, signals)]
  /\ UNCHANGED <<reader, passes, tables, pins, diode_pins, ci, pi, pc>>

\* export_board_outline_to_csv
OutlineRows(bo) ==
  [i \in 1..Len(bo) |->
     [x1 |-> bo[i][1], y1 |-> bo[i][2], x2 |-> bo[i][3], y2 |-> bo[i][4]]]

ExportBoardOutlineToCsv ==
  /\ Parsed
  /\ export' = [name |-> "outline", ok |-> TRUE, rows |-> OutlineRows(board_outline)]
  /\ UNCHANGED <<reader, passes, tables, pins, diode_pins, ci, pi, pc>>

(***************************************************************************)
(* export_houdini_csv.  It writes id, z, connected_to and connected_ids    *)
(* into the dicts of self.pins.  connected_to and connected_ids are kept   *)
(* as the sequences that "|".join and "[" + ",".join + "]" render.         *)
(***************************************************************************)
HoudiniFields == CsvFields \cup {"id", "z", "connected_to", "connected_ids"}

\* lines 629-637
WithIds(ps) ==
  [i \in 1..Len(ps) |->
     [component |-> ps[i].component, pin_name |-> ps[i].pin_name,
      x |-> ps[i].x, y |-> ps[i].y, layer |-> ps[i].layer,
      signal |-> ps[i].signal,
      id |-> i - 1,
      z |-> IF ps[i].layer = "TOP" THEN "0.0" ELSE "-0.1",
      connected_to |-> <<>>,
      connected_ids |-> <<>>]]

\* pin_lookup[key]: the last pin stored under (component, pin_name); 0: none.
PinLookup(ps, key) ==
  LET hits == {i \in 1..Len(ps) : <<ps[i].component, ps[i].pin_name>> = key}
  IN IF hits = {} THEN 0 ELSE CHOOSE i \in hits : \A j \in hits : j <= i

\* signal_pins of one net, as positions in self.pins.
RECURSIVE SignalPins(_, _)
SignalPins(ps, nodes) ==
  IF nodes = <<>> THEN <<>>
  ELSE LET i == PinLookup(ps, Head(nodes))
       IN (IF i = 0 THEN <<>> ELSE <<i>>) \o SignalPins(ps, Tail(nodes))

\* "if i != j": every other position of signal_pins.
OtherPositions(idx, i) == SubSeq(idx, 1, i - 1) \o SubSeq(idx, i + 1, Len(idx))

\* for i, pin1 in enumerate(signal_pins): the passes from pass i on.
RECURSIVE ConnectFrom(_, _, _)
ConnectFrom(ps, idx, i) ==
  IF i > Len(idx) THEN ps
  ELSE LET others == OtherPositions(idx, i)
           to == [j \in 1..Len(others) |->
                    Label(ps[others[j]].component, ps[others[j]].pin_name)]
           ids == [j \in 1..Len(others) |-> ps[others[j]].id]
       IN ConnectFrom([ps EXCEPT ![idx[i]].connected_to = to,
                                 ![idx[i]].connected_ids = ids],
                      idx, i + 1)

\* for signal_name, connections_list in self.signals.items()
RECURSIVE ConnectNets(_, _)
ConnectNets(ps, sigs) ==
  IF sigs = <<>> THEN ps
  ELSE IF Head(sigs).name = "unconnected" THEN ConnectNets(ps, Tail(sigs))
  ELSE ConnectNets(ConnectFrom(ps, SignalPins(ps, Head(sigs).nodes), 1),
                   Tail(sigs))

Houdini(ps, sigs) == ConnectNets(WithIds(ps), sigs)

ExportHoudiniCsv ==
  /\ Parsed
  /\ pins' = Houdini(pins, signals)
  /\ export' = Written("houdini", pins', HoudiniFields)
  /\ UNCHANGED <<reader, passes, tables, diode_pins, ci, pi, pc>>

Export ==
  \/ ExportToCsv
  \/ ExportConnectionsToCsv
  \/ ExportNetlistToCsv
  \/ ExportBoardOutlineToCsv
  \/ ExportHoudiniCsv

Next == Resolve \/ Export

Spec == Init /\ [][Next]_vars

(***************************************************************************)
(* The text of a document.  A line, after strip(), is the sequence of its  *)
(* whitespace-separated tokens; the empty sequence is a blank line.  A     *)
(* token is a section marker, a bare word, a quoted name, or a run of the   *)
(* characters [-0-9.], which float() either accepts (with the value given) *)
(* or rejects.  Quoted component and pin names are character sequences,    *)
(* quoted shape, device and net names are strings, as in the tables.       *)
(***************************************************************************)
Word(t) == [kind |-> "word", text |-> t]
Quoted(n) == [kind |-> "quoted", name |-> n]
Number(v) == [kind |-> "number", value |-> v]
BadNumber == [kind |-> "badnumber"]
StartLine(tag) == <<[kind |-> "start", tag |-> tag]>>
EndLine(tag) == <<[kind |-> "end", tag |-> tag]>>

\* [-\d\.]+
IsNumeric(t) == t.kind \in {"number", "badnumber"}

\* float(token) returns.
FloatOk(t) == t.kind = "number"

Min(S) == CHOOSE i \in S : \A j \in S : i <= j

\* _extract_section: re.search(r"\$TAG(.*?)\$ENDTAG", content, re.DOTALL),
\* the lines between the first start marker and the first end marker after
\* it; "" when there is no such pair.
ExtractSection(text, tag) ==
  LET starts == {i \in 1..Len(text) : text[i] = StartLine(tag)}
      ends == {j \in 1..Len(text) : text[j] = EndLine(tag) /\ j > Min(starts)}
  IN IF starts = {} \/ ends = {} THEN <<>>
     ELSE SubSeq(text, Min(starts) + 1, Min(ends) - 1)

(***************************************************************************)
(* parse(), one step per line of a section.  pc names the builder at work: *)
(* _parse_board, _parse_shapes, _parse_components, _parse_signals, then    *)
(* _calculate_pin_positions.  _parse_header only sets self.units, which    *)
(* nothing reads, and cannot raise; it is left out.                        *)
(***************************************************************************)
Builders == {"board", "shapes", "components", "signals"}

idle == <<content, passes, pins, diode_pins, ci, pi, export>>

Reading(builder) == pc = builder /\ ln <= Len(section)

Line == section[ln]

\* parse() is called: the BOARD section is extracted.
StartParse ==
  /\ pc = "start"
  /\ pc' = "board"
  /\ section' = ExtractSection(content, "BOARD")
  /\ ln' = 1
  /\ current' = NoCurrent
  /\ UNCHANGED <<tables, idle>>

\* if not line: continue
SkipBlank ==
  /\ pc \in Builders
  /\ ln <= Len(section)
  /\ Line = <<>>
  /\ ln' = ln + 1
  /\ UNCHANGED <<section, current, pc, tables, idle>>

\* _parse_board
LineMatch(line) ==
  /\ Len(line) >= 5
  /\ line[1] = Word("LINE")
  /\ \A i \in 2..5 : IsNumeric(line[i])

OutlineLine ==
  /\ Reading("board")
  /\ LineMatch(Line)
  /\ \A i \in 2..5 : FloatOk(Line[i])
  /\ board_outline' = Append(board_outline, [i \in 1..4 |-> Line[i + 1].value])
  /\ ln' = ln + 1
  /\ UNCHANGED <<section, current, pc, shapes, components, signals, idle>>

\* map(float, ...) is consumed by the tuple assignment: ValueError.
OutlineRaise ==
  /\ Reading("board")
  /\ LineMatch(Line)
  /\ \E i \in 2..5 : ~FloatOk(Line[i])
  /\ pc' = "raised"
  /\ UNCHANGED <<reader, tables, idle>>

OutlineOther ==
  /\ Reading("board")
  /\ Line # <<>>
  /\ ~LineMatch(Line)
  /\ ln' = ln + 1
  /\ UNCHANGED <<section, current, pc, tables, idle>>

\* _parse_shapes
ShapeMatch(line) ==
  /\ Len(line) >= 2
  /\ line[1] = Word("SHAPE")
  /\ line[2].kind = "quoted"

PinMatch(line) ==
  /\ Len(line) >= 5
  /\ line[1] = Word("PIN")
  /\ line[2].kind = "quoted"
  /\ line[3].kind = "word"
  /\ IsNumeric(line[4])
  /\ IsNumeric(line[5])

\* groups[4], the optional (\w+), and groups[5], the optional (\d+) after it.
PinLayerGroup(line) ==
  IF Len(line) >= 6 /\ line[6].kind = "word" THEN line[6].text ELSE "TOP"

PinRotationGroup(line) ==
  IF /\ Len(line) >= 7
     /\ line[6].kind = "word"
     /\ line[7].kind = "number"
     /\ line[7].value >= 0
  THEN line[7].value ELSE 0

ShapePinOf(line) ==
  [name |-> line[2].name, pad |-> line[3].text,
   x |-> line[4].value, y |-> line[5].value,
   layer |-> PinLayerGroup(line), rotation |-> PinRotationGroup(line)]

\* A SHAPE line that leaves an existing pin list of that name alone.
DeclareShapeOnce(sh, name) ==
  [s \in DOMAIN sh \cup {name} |-> IF s \in DOMAIN sh THEN sh[s] ELSE <<>>]

\* self.shapes[current_shape] = {'pins': []}
DeclareShape(sh, name) ==
  [s \in DOMAIN sh \cup {name} |-> IF s = name THEN <<>> ELSE sh[s]]

ShapeDeclaration ==
  /\ Reading("shapes")
  /\ ShapeMatch(Line)
  /\ current' = Current(Line[2].name)
  /\ shapes' = DeclareShape(shapes, Line[2].name)
  /\ ln' = ln + 1
  /\ UNCHANGED <<section, pc, components, signals, board_outline, idle>>

PinLine ==
  /\ Reading("shapes")
  /\ Line # <<>>
  /\ ~ShapeMatch(Line)
  /\ PinMatch(Line) /\ current.set
  /\ FloatOk(Line[4]) /\ FloatOk(Line[5])
  /\ shapes' = [shapes EXCEPT ![current.name] = Append(@, ShapePinOf(Line))]
  /\ ln' = ln + 1
  /\ UNCHANGED <<section, current, pc, components, signals, board_outline, idle>>

\* float(x) or float(y) raises ValueError while the pin dict is being built.
PinRaise ==
  /\ Reading("shapes")
  /\ Line # <<>>
  /\ ~ShapeMatch(Line)
  /\ PinMatch(Line) /\ current.set
  /\ ~(FloatOk(Line[4]) /\ FloatOk(Line[5]))
  /\ pc' = "raised"
  /\ UNCHANGED <<reader, tables, idle>>

\* Neither pattern matches, or a PIN line has no current shape.
ShapeOther ==
  /\ Reading("shapes")
  /\ Line # <<>>
  /\ ~ShapeMatch(Line)
  /\ ~(PinMatch(Line) /\ current.set)
  /\ ln' = ln + 1
  /\ UNCHANGED <<section, current, pc, tables, idle>>

\* _parse_components
ComponentMatch(line) ==
  /\ Len(line) >= 2
  /\ line[1] = Word("COMPONENT")
  /\ line[2].kind = "quoted"

DeviceMatch(line) ==
  /\ Len(line) >= 2
  /\ line[1] = Word("DEVICE")
  /\ line[2].kind = "quoted"

PlaceMatch(line) ==
  /\ Len(line) >= 3
  /\ line[1] = Word("PLACE")
  /\ IsNumeric(line[2])
  /\ IsNumeric(line[3])

LayerMatch(line) ==
  /\ Len(line) >= 2
  /\ line[1] = Word("LAYER")
  /\ line[2].kind = "word"

RotationMatch(line) ==
  /\ Len(line) >= 2
  /\ line[1] = Word("ROTATION")
  /\ IsNumeric(line[2])

\* "MIRRORX" in line, for a line whose tokens are whole words.
HasToken(line, t) == \E i \in 1..Len(line) : line[i] = Word(t)

\* The branch of the loop body that a line takes; every branch but the last
\* ends in "continue".
Branch(line, cur) ==
  IF line = <<>> THEN "blank"
  ELSE IF ComponentMatch(line) THEN "component"
  ELSE IF DeviceMatch(line) /\ cur.set THEN "device"
  ELSE IF PlaceMatch(line) /\ cur.set THEN "place"
  ELSE IF LayerMatch(line) /\ cur.set THEN "layer"
  ELSE IF RotationMatch(line) /\ cur.set THEN "rotation"
  ELSE IF ShapeMatch(line) /\ cur.set THEN "shape"
  ELSE "flags"

Taking(branch) == Reading("components") /\ Branch(Line, current) = branch

\* A COMPONENT line that leaves an existing record of that name alone.
DeclareComponentOnce(cs, name) ==
  IF \E k \in 1..Len(cs) : cs[k].name = name THEN cs
  ELSE Append(cs, [name |-> name, data |-> NoFlags])

\* self.components[name] = {'mirror_x': False, 'mirror_y': False,
\* 'flip': False}; a dict keeps the position of a key it already holds.
DeclareComponent(cs, name) ==
  IF \E k \in 1..Len(cs) : cs[k].name = name
  THEN [k \in 1..Len(cs) |->
          IF cs[k].name = name THEN [name |-> name, data |-> NoFlags] ELSE cs[k]]
  ELSE Append(cs, [name |-> name, data |-> NoFlags])

\* self.components[name][key] = value, for the keys of attrs.
SetAttributes(cs, name, attrs) ==
  [k \in 1..Len(cs) |->
     IF cs[k].name = name THEN [cs[k] EXCEPT !.data = attrs @@ @] ELSE cs[k]]

ComponentStep(cs) ==
  /\ components' = cs
  /\ ln' = ln + 1
  /\ UNCHANGED <<section, current, pc, shapes, signals, board_outline, idle>>

ComponentDeclaration ==
  /\ Taking("component")
  /\ current' = Current(Line[2].name)
  /\ components' = DeclareComponent(components, Line[2].name)
  /\ ln' = ln + 1
  /\ UNCHANGED <<section, pc, shapes, signals, board_outline, idle>>

DeviceLine ==
  /\ Taking("device")
  /\ ComponentStep(SetAttributes(components, current.name,
                                 [device |-> Line[2].name]))

PlaceLine ==
  /\ Taking("place")
  /\ FloatOk(Line[2]) /\ FloatOk(Line[3])
  /\ ComponentStep(SetAttributes(components, current.name,
                                 [x |-> Line[2].value, y |-> Line[3].value]))

\* float(x) raises before anything is stored; float(y) after x is stored.
PlaceRaise ==
  /\ Taking("place")
  /\ ~(FloatOk(Line[2]) /\ FloatOk(Line[3]))
  /\ components' = IF FloatOk(Line[2])
                   THEN SetAttributes(components, current.name,
                                      [x |-> Line[2].value])
                   ELSE components
  /\ pc' = "raised"
  /\ UNCHANGED <<reader, shapes, signals, board_outline, idle>>

LayerLine ==
  /\ Taking("layer")
  /\ ComponentStep(SetAttributes(components, current.name,
                                 [layer |-> Line[2].text]))

\* int(float(rotation)), and 0 with a warning when float() raises ValueError.
RotationLine ==
  /\ Taking("rotation")
  /\ ComponentStep(SetAttributes(components, current.name,
       [rotation |-> IF FloatOk(Line[2]) THEN Line[2].value ELSE 0]))

ShapeLine ==
  /\ Taking("shape")
  /\ ComponentStep(SetAttributes(components, current.name,
                                 [shape |-> Line[2].name]))

\* Lines 286-291, reached only by a line that took no "continue".
FlagAttributes(line) ==
  [f \in {g \in {"mirror_x", "mirror_y", "flip"} :
            \/ g = "mirror_x" /\ HasToken(line, "MIRRORX")
            \/ g = "mirror_y" /\ HasToken(line, "MIRRORY")
            \/ g = "flip" /\ HasToken(line, "FLIP")} |-> TRUE]

FlagsLine ==
  /\ Taking("flags")
  /\ ComponentStep(IF current.set
                   THEN SetAttributes(components, current.name,
                                      FlagAttributes(Line))
                   ELSE components)

\* _parse_signals
SignalMatch(line) ==
  /\ Len(line) >= 2
  /\ line[1] = Word("SIGNAL")
  /\ line[2].kind = "quoted"

NodeMatch(line) ==
  /\ Len(line) >= 3
  /\ line[1] = Word("NODE")
  /\ line[2].kind = "quoted"
  /\ line[3].kind = "quoted"

SignalDeclaration ==
  /\ Reading("signals")
  /\ SignalMatch(Line)
  /\ current' = Current(Line[2].name)
  /\ ln' = ln + 1
  /\ UNCHANGED <<section, pc, tables, idle>>

NodeLine ==
  /\ Reading("signals")
  /\ Line # <<>>
  /\ ~SignalMatch(Line)
  /\ NodeMatch(Line) /\ current.set
  /\ signals' = AppendNode(signals, current.name, <<Line[2].name, Line[3].name>>)
  /\ ln' = ln + 1
  /\ UNCHANGED <<section, current, pc, shapes, components, board_outline, idle>>

SignalOther ==
  /\ Reading("signals")
  /\ Line # <<>>
  /\ ~SignalMatch(Line)
  /\ ~(NodeMatch(Line) /\ current.set)
  /\ ln' = ln + 1
  /\ UNCHANGED <<section, current, pc, tables, idle>>

\* A builder returns and parse() extracts the section of the next one.
NextBuilder(builder) ==
  CASE builder = "board" -> "shapes"
    [] builder = "shapes" -> "components"
    [] builder = "components" -> "signals"

SectionTag(builder) ==
  CASE builder = "shapes" -> "SHAPES"
    [] builder = "components" -> "COMPONENTS"
    [] builder = "signals" -> "SIGNALS"

EndSection ==
  /\ pc \in Builders \ {"signals"}
  /\ ln > Len(section)
  /\ pc' = NextBuilder(pc)
  /\ section' = ExtractSection(content, SectionTag(pc'))
  /\ ln' = 1
  /\ current' = NoCurrent
  /\ UNCHANGED <<tables, idle>>

\* _parse_signals returns and _calculate_pin_positions starts its loop.
StartResolve ==
  /\ pc = "signals"
  /\ ln > Len(section)
  /\ pc' = "resolve"
  /\ ci' = 1
  /\ pi' = 1
  /\ diode_pins' = <<>>
  /\ UNCHANGED <<reader, tables, passes, pins, export>>

Build ==
  \/ StartParse
  \/ SkipBlank
  \/ OutlineLine
  \/ OutlineRaise
  \/ OutlineOther
  \/ ShapeDeclaration
  \/ PinLine
  \/ PinRaise
  \/ ShapeOther
  \/ ComponentDeclaration
  \/ DeviceLine
  \/ PlaceLine
  \/ PlaceRaise
  \/ LayerLine
  \/ RotationLine
  \/ ShapeLine
  \/ FlagsLine
  \/ SignalDeclaration
  \/ NodeLine
  \/ SignalOther
  \/ EndSection
  \/ StartResolve

(***************************************************************************)
(* Input texts: one section of up to MaxLines arbitrary lines, the other   *)
(* sections fixed, and texts with section markers missing.                 *)
(***************************************************************************)
BoardLines ==
  {<<Word("LINE"), Number(0), Number(0), Number(10), Number(0)>>,
   <<Word("LINE"), Number(10), Number(0), BadNumber, Number(-5)>>,
   <<Word("ARC"), Number(0), Number(0)>>}

ShapeS1 == <<Word("SHAPE"), Quoted("S1")>>
Pin1 == <<Word("PIN"), Quoted(<<"1">>), Word("PAD"), Number(2), Number(3)>>
Pin2 ==
  <<Word("PIN"), Quoted(<<"2">>), Word("PAD"), Number(-1), Number(4),
    Word("BOTTOM")>>

ShapeLines ==
  {ShapeS1,
   <<Word("SHAPE"), Quoted("S2")>>,
   Pin1,
   Pin2,
   <<Word("PIN"), Quoted(<<"9">>), Word("PAD"), BadNumber, Number(0)>>,
   <<Word("INSERT"), Word("SMD")>>,
   <<>>}

ComponentU1 == <<Word("COMPONENT"), Quoted(U1)>>
ComponentD1 == <<Word("COMPONENT"), Quoted(D1)>>
Place == <<Word("PLACE"), Number(10), Number(10)>>

ComponentLines ==
  {ComponentU1,
   ComponentD1,
   <<Word("DEVICE"), Quoted("R")>>,
   Place,
   <<Word("PLACE"), BadNumber, Number(3)>>,
   <<Word("LAYER"), Word("BOTTOM")>>,
   <<Word("ROTATION"), Number(90)>>,
   <<Word("ROTATION"), BadNumber>>,
   ShapeS1,
   <<Word("SHAPE"), Quoted("S1"), Word("MIRRORY"), Word("FLIP")>>,
   <<Word("MIRRORX")>>,
   <<Word("MIRRORY"), Word("FLIP")>>}

Node(c, p) == <<Word("NODE"), Quoted(c), Quoted(p)>>

SignalLines ==
  {<<Word("SIGNAL"), Quoted("N1")>>,
   <<Word("SIGNAL"), Quoted("N2")>>,
   Node(U1, <<"1">>),
   Node(D1, <<"9">>),
   <<Word("NAILLOC"), Quoted("N1")>>}

Wrap(tag, lines) == <<StartLine(tag)>> \o lines \o <<EndLine(tag)>>

BoardTexts == {Wrap("BOARD", ls) : ls \in SeqsUpTo(BoardLines, MaxLines)}

ShapeTexts ==
  {Wrap("SHAPES", ls) \o Wrap("COMPONENTS", <<ComponentD1, Place, ShapeS1>>) :
     ls \in SeqsUpTo(ShapeLines, MaxLines)}

ComponentTexts ==
  {Wrap("SHAPES", <<ShapeS1, Pin1>>) \o Wrap("COMPONENTS", ls) :
     ls \in SeqsUpTo(ComponentLines, MaxLines)}

SignalTexts ==
  {Wrap("SHAPES", <<ShapeS1, Pin1, Pin2>>)
     \o Wrap("COMPONENTS", <<ComponentU1, Place, ShapeS1>>)
     \o Wrap("SIGNALS", ls) :
     ls \in SeqsUpTo(SignalLines, MaxSignalLines)}

\* A section with or without its opening and its closing marker.
Marked(tag, lines, open, close) ==
  (IF open THEN <<StartLine(tag)>> ELSE <<>>) \o lines
    \o (IF close THEN <<EndLine(tag)>> ELSE <<>>)

MarkerTexts ==
  {Marked("SHAPES", <<ShapeS1, Pin1>>, so, sc)
     \o Marked("COMPONENTS", cs, co, cc)
     \o Wrap("SIGNALS", <<<<Word("SIGNAL"), Quoted("N1")>>, Node(U1, <<"1">>)>>) :
     so \in BOOLEAN, sc \in BOOLEAN, co \in BOOLEAN, cc \in BOOLEAN,
     cs \in {<<ComponentU1, Place, ShapeS1>>,
             <<ComponentU1, ShapeS1, ComponentD1>>,
             <<ComponentU1, ShapeS1, <<Word("PLACE"), BadNumber, Number(3)>>>>}}

Texts ==
  BoardTexts \cup ShapeTexts \cup ComponentTexts \cup SignalTexts
    \cup MarkerTexts

\* The state after GencadParser(file_path): every table empty.
InitParse ==
  \E text \in Texts :
    /\ content = text
    /\ section = <<>>
    /\ ln = 1
    /\ current = NoCurrent
    /\ passes = <<>>
    /\ shapes = NoShapes
    /\ components = <<>>
    /\ signals = <<>>
    /\ board_outline = <<>>
    /\ pins = <<>>
    /\ diode_pins = <<>>
    /\ ci = 1
    /\ pi = 1
    /\ pc = "start"
    /\ export = NoExport

NextParse == Build \/ Resolve

SpecParse == InitParse /\ [][NextParse]_vars

(***************************************************************************)
(* A second call on the same GencadParser object.  Neither parse() nor     *)
(* _calculate_pin_positions clears self.pins or any table.                 *)
(***************************************************************************)
Reparse ==
  /\ pc = "parsed"
  /\ Len(passes) < MaxPasses
  /\ pc' = "board"
  /\ section' = ExtractSection(content, "BOARD")
  /\ ln' = 1
  /\ current' = NoCurrent
  /\ UNCHANGED <<tables, idle>>

Recalculate ==
  /\ pc = "parsed"
  /\ Len(passes) < MaxPasses
  /\ pc' = "resolve"
  /\ ci' = 1
  /\ pi' = 1
  /\ diode_pins' = <<>>
  /\ UNCHANGED <<reader, tables, passes, pins, export>>

NextRerun == Build \/ Resolve \/ Reparse \/ Recalculate

SpecRerun == InitParse /\ [][NextRerun]_vars

(***************************************************************************)
(* Properties.                                                             *)
(***************************************************************************)
\* A pass of the pin loop: the component, the ShapePin and the record made.
PinPass == pi' = pi + 1
PassComp == components[ci]
PassPin == ShapePins(components[ci])[pi]
NewPin == IF diode_pins' # diode_pins THEN Last(diode_pins') ELSE Last(pins')

\* Rotation by q quarter turns counter-clockwise.
QuarterTurns(v, q) ==
  CASE q = 0 -> v
    [] q = 1 -> <<-v[2], v[1]>>
    [] q = 2 -> <<-v[1], -v[2]>>
    [] q = 3 -> <<v[2], -v[1]>>

RotationOf(c) == IF "rotation" \in DOMAIN c.data THEN c.data.rotation ELSE 0

\* C1: every directly computed pin position is placement + Rot(rotation)
\* applied to (sx*rx, sy*ry), sx = -1 iff mirror_x, sy = -1 iff mirror_y; with
\* rotation 0 and no mirror flag it is offset + placement.
C1_MirrorRotateTranslate ==
  [][PinPass =>
       LET c == PassComp
           p == PassPin
           sx == IF c.data.mirror_x THEN -1 ELSE 1
           sy == IF c.data.mirror_y THEN -1 ELSE 1
           v == QuarterTurns(<<sx * p.x, sy * p.y>>, (RotationOf(c) % 360) \div 90)
       IN /\ NewPin.x = c.data.x + v[1]
          /\ NewPin.y = c.data.y + v[2]
          /\ (RotationOf(c) = 0 /\ ~c.data.mirror_x /\ ~c.data.mirror_y)
               => (NewPin.x = p.x + c.data.x /\ NewPin.y = p.y + c.data.y)]_vars

\* P2 at (-1, 4), mirrored in y, turned by 270 degrees, placed at (-4, 7).
C1_Witness ==
  /\ pc = "parsed"
  /\ Len(components) = 1
  /\ KnownShape(components[1]) /\ HasPlace(components[1])
  /\ components[1].name = U1
  /\ components[1].data.mirror_y /\ ~components[1].data.mirror_x
  /\ RotationOf(components[1]) = 270
  /\ shapes["S1"] = <<P2>>
  /\ Len(pins) = 1 /\ pins[1].x = -8 /\ pins[1].y = 8

\* The case of C2: a component that is no diode, placed at (10, 10), rotation
\* 90, mirror_x set, mirror_y not set, and a ShapePin at offset (2, 3).
C2_Case ==
  /\ ~(Len(PassComp.name) >= 3 /\ SubSeq(PassComp.name, 1, 3) = <<"L", "-", "D">>)
  /\ PassComp.data.x = 10 /\ PassComp.data.y = 10
  /\ RotationOf(PassComp) = 90
  /\ PassComp.data.mirror_x /\ ~PassComp.data.mirror_y
  /\ PassPin.x = 2 /\ PassPin.y = 3

\* C2 as stated: in that case the pin resolves to (10, 12).
C2_AsStated == [][(PinPass /\ C2_Case) => (NewPin.x = 10 /\ NewPin.y = 12)]_vars

\* C2 amended: in that case the pin resolves to (7, 8).
C2_Amended == [][(PinPass /\ C2_Case) => (NewPin.x = 7 /\ NewPin.y = 8)]_vars

C2_Witness ==
  /\ pc = "parsed"
  /\ Len(components) = 1
  /\ KnownShape(components[1]) /\ HasPlace(components[1])
  /\ components[1].name = U1
  /\ components[1].data.x = 10 /\ components[1].data.y = 10
  /\ RotationOf(components[1]) = 90
  /\ components[1].data.mirror_x /\ ~components[1].data.mirror_y
  /\ shapes["S1"] = <<P1>>
  /\ Len(pins) = 1 /\ pins[1].pin_name = <<"1">>

\* C3: the resolved layer is the ShapePin's layer, with TOP and BOTTOM
\* exchanged under flip and every other layer passed through unchanged.
C3_LayerRule ==
  [][PinPass =>
       NewPin.layer =
         IF ~PassComp.data.flip THEN PassPin.layer
         ELSE IF PassPin.layer = "TOP" THEN "BOTTOM"
         ELSE IF PassPin.layer = "BOTTOM" THEN "TOP"
         ELSE PassPin.layer]_vars

\* The nets, by position in the signal table, that list exactly (c, p).
NetsListing(c, p) ==
  {k \in 1..Len(signals) :
     \E j \in 1..Len(signals[k].nodes) :
       signals[k].nodes[j][1] = c /\ signals[k].nodes[j][2] = p}

FirstOf(S) == CHOOSE k \in S : \A j \in S : k <= j

\* C4 as stated: the signal is the name of the first net listing (c, p), and
\* it is "unconnected" if and only if no net lists (c, p).
C4_AsStated ==
  [][PinPass =>
       LET M == NetsListing(PassComp.name, PassPin.name)
       IN /\ (M # {}) => NewPin.signal = signals[FirstOf(M)].name
          /\ (NewPin.signal = "unconnected") <=> (M = {})]_vars

\* C4 amended: the signal is the name of the first net listing (c, p); it is
\* "unconnected" if no net lists (c, p), and only then or when that first
\* net is itself named "unconnected".
C4_Amended ==
  [][PinPass =>
       LET M == NetsListing(PassComp.name, PassPin.name)
       IN /\ (M # {}) => NewPin.signal = signals[FirstOf(M)].name
          /\ (M = {}) => NewPin.signal = "unconnected"
          /\ (NewPin.signal = "unconnected") =>
               (M = {} \/ signals[FirstOf(M)].name = "unconnected")]_vars

\* U1:1 is listed by N2 and then by N1 and resolves to N2; U1:2 and L-D1:1
\* match a listed pair in one field only and stay unconnected.
C4_Witness ==
  /\ pc = "parsed"
  /\ Len(signals) = 2
  /\ signals[1].name = "N2" /\ signals[2].name = "N1"
  /\ <<U1, <<"1">>>> \in Range(signals[1].nodes)
  /\ <<U1, <<"1">>>> \in Range(signals[2].nodes)
  /\ <<D1, <<"2">>>> \in Range(signals[1].nodes)
  /\ Len(pins) = 4
  /\ pins[1].component = U1 /\ pins[1].pin_name = <<"1">> /\ pins[1].signal = "N2"
  /\ pins[2].component = U1 /\ pins[2].pin_name = <<"2">>
  /\ pins[2].signal = "unconnected"
  /\ pins[3].component = D1 /\ pins[3].pin_name = <<"1">>
  /\ pins[3].signal = "unconnected"

\* The end of a component's pass through the loop body, for a component
\* whose pins were computed.
ComponentDone == InPinLoop /\ ci' = ci + 1

Added == SubSeq(pins', Len(pins) + 1, Len(pins'))

NamedLD(n) == Len(n) >= 3 /\ n[1] = "L" /\ n[2] = "-" /\ n[3] = "D"

Exchanged(a, b) ==
  <<[a EXCEPT !.x = b.x, !.y = b.y], [b EXCEPT !.x = a.x, !.y = a.y]>>

\* C5: exactly for a component named "L-D..." whose shape yields two pins,
\* the two pins, ordered by pin name, hold each other's directly computed
\* (x, y) and keep their own name, layer and signal; every other component's
\* pins keep their directly computed coordinates.
C5_DiodeSwap ==
  [][/\ (pc = "resolve") =>
          /\ Len(pins') >= Len(pins)
          /\ SubSeq(pins', 1, Len(pins)) = pins
     /\ (PinPass /\ ~NamedLD(PassComp.name)) =>
          (diode_pins' = <<>> /\ Len(pins') = Len(pins) + 1)
     /\ ComponentDone =>
          IF NamedLD(PassComp.name) /\ Len(ShapePins(PassComp)) = 2
          THEN /\ Len(diode_pins) = 2
               /\ LET lo == IF StrLess(diode_pins[2].pin_name, diode_pins[1].pin_name)
                            THEN diode_pins[2] ELSE diode_pins[1]
                      hi == IF StrLess(diode_pins[2].pin_name, diode_pins[1].pin_name)
                            THEN diode_pins[1] ELSE diode_pins[2]
                  IN Range(Added) = Range(Exchanged(lo, hi)) /\ Len(Added) = 2
          ELSE IF NamedLD(PassComp.name)
          THEN Added = diode_pins /\ Len(Added) = Len(ShapePins(PassComp))
          ELSE Added = <<>> /\ diode_pins = <<>>]_vars

\* L-D1 on shape <<"2", "1">> at (10, 10): pin "1" is computed at (12, 13),
\* pin "2" at (9, 14), and they end up exchanged.
C5_Witness ==
  /\ pc = "parsed"
  /\ Len(components) = 1
  /\ KnownShape(components[1]) /\ HasPlace(components[1])
  /\ components[1].name = D1
  /\ shapes["S1"] = <<P2, P1>>
  /\ RotationOf(components[1]) = 0
  /\ ~components[1].data.mirror_x /\ ~components[1].data.mirror_y
  /\ components[1].data.x = 10 /\ components[1].data.y = 10
  /\ \E i \in 1..Len(pins) :
       /\ pins[i].pin_name = <<"1">> /\ pins[i].x = 9 /\ pins[i].y = 14
       /\ pins[i].layer = P1.layer
  /\ \E i \in 1..Len(pins) :
       /\ pins[i].pin_name = <<"2">> /\ pins[i].x = 12 /\ pins[i].y = 13
       /\ pins[i].layer = P2.layer

\* The (component, pin name) pairs in component-table order and, within a
\* component, in the order of the ShapePins of its shape.
RECURSIVE ShapeOrder(_)
ShapeOrder(cs) ==
  IF cs = <<>> THEN <<>>
  ELSE ShapeOrder(Front(cs)) \o
       (IF KnownShape(Last(cs))
        THEN [j \in 1..Len(ShapePins(Last(cs))) |->
                <<Last(cs).name, ShapePins(Last(cs))[j].name>>]
        ELSE <<>>)

\* C6: the resolved-pin list is in component-table order and, within each
\* component, in the order of the ShapePins, also for swapped diodes.
C6_ShapePinOrder ==
  (pc = "parsed") =>
    [i \in 1..Len(pins) |-> <<pins[i].component, pins[i].pin_name>>]
      = ShapeOrder(components)

PinsOfComponent(n) == {i \in 1..Len(pins) : pins[i].component = n}

\* C7: after a resolution pass every component with a known shape has one
\* pin per ShapePin and every other component has none.
C7_OnePinPerShapePin ==
  (pc # "resolve") =>
    \A k \in 1..Len(components) :
      Cardinality(PinsOfComponent(components[k].name)) =
        IF KnownShape(components[k]) THEN Len(ShapePins(components[k])) ELSE 0

\* C8: parse() never ends with an exception.
C8_NeverRaises == pc # "raised"

\* C9: no exporter changes the pins or the tables, and every call returns.
C9_ExportersPure ==
  [][Parsed => (pins' = pins /\ tables' = tables /\ export'.ok)]_vars

PeerIds(i) ==
  {pins[j].id : j \in {k \in 1..Len(pins) : k # i /\ pins[k].signal = pins[i].signal}}

\* C10: in the Houdini table a pin of a real net lists exactly the other
\* pins of that net, each once, never itself, connected_to and connected_ids
\* naming the same peers in the same order; a pin of no net lists nothing.
C10_PeersAreNetMembers ==
  (export.name = "houdini") =>
    \A i \in 1..Len(pins) :
      LET p == pins[i]
      IN /\ (p.signal # "unconnected") =>
              /\ Range(p.connected_ids) = PeerIds(i)
              /\ Len(p.connected_ids) = Cardinality(PeerIds(i))
              /\ p.id \notin Range(p.connected_ids)
              /\ Len(p.connected_to) = Len(p.connected_ids)
              /\ \A j \in 1..Len(p.connected_ids) :
                   p.connected_to[j] =
                     Label(pins[p.connected_ids[j] + 1].component,
                           pins[p.connected_ids[j] + 1].pin_name)
         /\ (NetsListing(p.component, p.pin_name) = {}) => p.connected_ids = <<>>

\* The positions of the resolved pins whose signal is s, and their pairs.
PinsOn(s) == {i \in 1..Len(pins) : pins[i].signal = s}

PairsOn(s) == {q \in PinsOn(s) \X PinsOn(s) : q[1] < q[2]}

PairRow(q) ==
  [signal |-> pins[q[1]].signal,
   component1 |-> pins[q[1]].component, pin1 |-> pins[q[1]].pin_name,
   x1 |-> pins[q[1]].x, y1 |-> pins[q[1]].y, layer1 |-> pins[q[1]].layer,
   component2 |-> pins[q[2]].component, pin2 |-> pins[q[2]].pin_name,
   x2 |-> pins[q[2]].x, y2 |-> pins[q[2]].y, layer2 |-> pins[q[2]].layer]

RealNets == {pins[i].signal : i \in 1..Len(pins)} \ {"unconnected"}

AllPairs == UNION {PairsOn(s) : s \in RealNets}

\* C11: the connection table holds, for every net carried by k resolved
\* pins, one row per unordered pair of distinct pins of that net, k*(k-1)/2
\* rows in all, each pair once, no pin with itself, and no row with signal
\* "unconnected" or joining pins of different nets.
C11_PairsPerNet ==
  (export.name = "connections") =>
    LET rows == export.rows
    IN /\ \A n \in 1..Len(rows) :
            /\ rows[n].signal # "unconnected"
            /\ \E q \in PairsOn(rows[n].signal) : rows[n] = PairRow(q)
       /\ \A s \in RealNets :
            LET k == Cardinality(PinsOn(s))
            IN Cardinality({n \in 1..Len(rows) : rows[n].signal = s})
                 = (k * (k - 1)) \div 2
       /\ \A q \in AllPairs :
            Cardinality({n \in 1..Len(rows) : rows[n] = PairRow(q)})
              = Cardinality({r \in AllPairs : PairRow(r) = PairRow(q)})

\* Four pins on N1 give six rows.
C11_Witness ==
  /\ export.name = "connections"
  /\ Cardinality(PinsOn("N1")) = 4
  /\ Len(export.rows) = 6

\* "a:1, b:2, ..." for a list of (component, pin) endpoints.
RECURSIVE CommaList(_)
CommaList(nodes) ==
  IF nodes = <<>> THEN <<>>
  ELSE (IF Len(nodes) = 1 THEN <<>> ELSE CommaList(Front(nodes)) \o <<",", " ">>)
         \o Last(nodes)[1] \o <<":">> \o Last(nodes)[2]

IsResolved(n) ==
  \E i \in 1..Len(pins) : pins[i].component = n[1] /\ pins[i].pin_name = n[2]

\* C15 as stated: the netlist summary has one row per net of the signal
\* table, whose components string lists in declaration order every declared
\* endpoint of the net, resolved or not, and whose pin_count is their number.
C15_AsStated ==
  (export.name = "netlist") =>
    /\ Len(export.rows) = Len(signals)
    /\ \A k \in 1..Len(signals) :
         /\ export.rows[k].signal = signals[k].name
         /\ export.rows[k].components = CommaList(signals[k].nodes)
         /\ export.rows[k].pin_count = Len(signals[k].nodes)

\* C15 amended: the netlist summary has one row per net of the signal table,
\* whose components string lists in declaration order the declared endpoints
\* of the net that have a resolved pin, and whose pin_count is their number.
C15_Amended ==
  (export.name = "netlist") =>
    /\ Len(export.rows) = Len(signals)
    /\ \A k \in 1..Len(signals) :
         LET listed == SelectSeq(signals[k].nodes, IsResolved)
         IN /\ export.rows[k].signal = signals[k].name
            /\ export.rows[k].components = CommaList(listed)
            /\ export.rows[k].pin_count = Len(listed)

\* N1 declares U1:9, which no shape has, between U1:1 and L-D1:2; its row
\* counts two pins.
C15_Witness ==
  /\ export.name = "netlist"
  /\ Len(signals) = 1
  /\ signals[1].nodes = <<<<U1, <<"1">>>>, <<U1, <<"9">>>>, <<D1, <<"2">>>>>>
  /\ export.rows[1].pin_count = 2
  /\ export.rows[1].components =
       <<"U", "1", ":", "1", ",", " ", "L", "-", "D", "1", ":", "2">>

\* The lines of the section that the builder at work has gone through.
Consumed == 1..(ln - 1)

IsSignalLine(k) ==
  /\ Len(section[k]) >= 2
  /\ section[k][1] = [kind |-> "word", text |-> "SIGNAL"]
  /\ section[k][2].kind = "quoted"

IsNodeLine(k) ==
  /\ ~IsSignalLine(k)
  /\ Len(section[k]) >= 3
  /\ section[k][1] = [kind |-> "word", text |-> "NODE"]
  /\ section[k][2].kind = "quoted"
  /\ section[k][3].kind = "quoted"

SignalLinesBefore(k) == {j \in 1..(k - 1) : IsSignalLine(j)}

LastOf(S) == CHOOSE k \in S : \A j \in S : j <= k

\* The NODE lines gone through whose most recent preceding SIGNAL line
\* names net n, in source order.
NodeLinesOf(n) ==
  SelectSeq([k \in Consumed |-> k],
            LAMBDA k : /\ IsNodeLine(k)
                       /\ SignalLinesBefore(k) # {}
                       /\ section[LastOf(SignalLinesBefore(k))][2].name = n)

EndpointsOf(n) ==
  [i \in 1..Len(NodeLinesOf(n)) |->
     <<section[NodeLinesOf(n)[i]][2].name, section[NodeLinesOf(n)[i]][3].name>>]

NetsDeclared == {section[k][2].name : k \in {j \in Consumed : IsSignalLine(j)}}

\* C17: at every point of the signal section each net's endpoint list is the
\* sequence, in source order, of the NODE pairs whose most recent preceding
\* SIGNAL line names that net (a recurring SIGNAL name appends, a NODE line
\* before every SIGNAL line is dropped), stored as written.
C17_EndpointLists ==
  (pc = "signals") =>
    /\ \A k \in 1..Len(signals) :
         /\ signals[k].name \in NetsDeclared
         /\ signals[k].nodes = EndpointsOf(signals[k].name)
         /\ \A j \in 1..Len(signals) : signals[j].name = signals[k].name => j = k
    /\ \A n \in NetsDeclared :
         EndpointsOf(n) # <<>> => \E k \in 1..Len(signals) : signals[k].name = n

\* SIGNAL N1, NODE U1:1, SIGNAL N1, NODE L-D1:9: the recurring N1 keeps its
\* first endpoint, and L-D1:9, which names no component, is stored.
C17_Witness ==
  /\ pc = "signals"
  /\ ln = 5
  /\ IsSignalLine(1) /\ IsNodeLine(2) /\ IsSignalLine(3) /\ IsNodeLine(4)
  /\ Len(signals) = 1
  /\ signals[1].name = "N1"
  /\ signals[1].nodes = <<<<U1, <<"1">>>>, <<D1, <<"9">>>>>>

IsShapeLine(k) ==
  /\ Len(section[k]) >= 2
  /\ section[k][1] = [kind |-> "word", text |-> "SHAPE"]
  /\ section[k][2].kind = "quoted"

IsPinLine(k) ==
  /\ ~IsShapeLine(k)
  /\ Len(section[k]) >= 5
  /\ section[k][1] = [kind |-> "word", text |-> "PIN"]
  /\ section[k][2].kind = "quoted"
  /\ section[k][3].kind = "word"
  /\ section[k][4].kind \in {"number", "badnumber"}
  /\ section[k][5].kind \in {"number", "badnumber"}

ShapesDeclared == {section[k][2].name : k \in {j \in Consumed : IsShapeLine(j)}}

\* The last SHAPE line gone through that names n, and the PIN lines gone
\* through between it and the next SHAPE line.
LastDeclaration(n) ==
  LastOf({j \in Consumed : IsShapeLine(j) /\ section[j][2].name = n})

PinLinesOf(n) ==
  SelectSeq([k \in Consumed |-> k],
            LAMBDA k : /\ IsPinLine(k)
                       /\ k > LastDeclaration(n)
                       /\ \A j \in (LastDeclaration(n) + 1)..(k - 1) :
                            ~IsShapeLine(j))

\* C18: at every point of the shape section each shape's pin list is the
\* sequence, in source order, of the PIN lines between the last SHAPE line
\* of that name and the next SHAPE line (a re-declared name starts again
\* from an empty list, a line matching neither pattern changes nothing), and
\* a PIN line before every SHAPE line is attached to no shape and raises
\* no error.
C18_ShapePinLists ==
  /\ (pc = "shapes") =>
       /\ DOMAIN shapes = ShapesDeclared
       /\ \A n \in ShapesDeclared :
            /\ Len(shapes[n]) = Len(PinLinesOf(n))
            /\ \A i \in 1..Len(shapes[n]) :
                 LET line == section[PinLinesOf(n)[i]]
                 IN /\ shapes[n][i].name = line[2].name
                    /\ shapes[n][i].x = line[4].value
                    /\ shapes[n][i].y = line[5].value
  /\ (pc = "raised" /\ ln <= Len(section) /\ IsPinLine(ln)) =>
       \E j \in Consumed : IsShapeLine(j)

\* SHAPE S1, PIN 1, SHAPE S1: the re-declared S1 has no pins.
C18_Witness ==
  /\ pc = "shapes"
  /\ ln = 4
  /\ IsShapeLine(1) /\ IsPinLine(2) /\ IsShapeLine(3)
  /\ section[1] = section[3]
  /\ DOMAIN shapes = {"S1"}
  /\ shapes["S1"] = <<>>

\* A step of the component builder over one line, and the record of the
\* current component before and after it.
ComponentLineStep == pc = "components" /\ ln' = ln + 1

IsComponentLine(line) ==
  /\ Len(line) >= 2
  /\ line[1] = [kind |-> "word", text |-> "COMPONENT"]
  /\ line[2].kind = "quoted"

RecordOf(cs, n) == cs[CHOOSE k \in 1..Len(cs) : cs[k].name = n].data

Carries(line, token) ==
  \E i \in 1..Len(line) : line[i] = [kind |-> "word", text |-> token]

\* C12: every line inside a component block that carries MIRRORX, MIRRORY or
\* FLIP sets the corresponding flag of the current component, whatever else
\* the line carries, and leaves the flags it does not carry as they were.
C12_FlagTokens ==
  [][(ComponentLineStep /\ current.set /\ ~IsComponentLine(section[ln])) =>
       LET old == RecordOf(components, current.name)
           new == RecordOf(components', current.name)
           line == section[ln]
       IN /\ new.mirror_x = (old.mirror_x \/ Carries(line, "MIRRORX"))
          /\ new.mirror_y = (old.mirror_y \/ Carries(line, "MIRRORY"))
          /\ new.flip = (old.flip \/ Carries(line, "FLIP"))]_vars

Names(cs) == {cs[k].name : k \in 1..Len(cs)}

\* C16: a COMPONENT line leaves under its name a record of three false flags
\* and nothing else, whatever was stored under that name before; any other
\* line changes at most the record of the current component, where it only
\* adds or overwrites attributes and never clears a flag; before the first
\* COMPONENT line no line changes anything.
C16_FreshRecord ==
  [][ComponentLineStep =>
       LET line == section[ln]
       IN IF IsComponentLine(line)
          THEN /\ Names(components') = Names(components) \cup {line[2].name}
               /\ RecordOf(components', line[2].name) =
                    [mirror_x |-> FALSE, mirror_y |-> FALSE, flip |-> FALSE]
               /\ \A n \in Names(components) \ {line[2].name} :
                    RecordOf(components', n) = RecordOf(components, n)
          ELSE IF ~current.set THEN components' = components
          ELSE /\ Names(components') = Names(components)
               /\ \A n \in Names(components) \ {current.name} :
                    RecordOf(components', n) = RecordOf(components, n)
               /\ LET old == RecordOf(components, current.name)
                      new == RecordOf(components', current.name)
                  IN /\ DOMAIN old \subseteq DOMAIN new
                     /\ \A f \in {"mirror_x", "mirror_y", "flip"} :
                          old[f] => new[f]]_vars

\* COMPONENT U1, MIRRORX, COMPONENT U1: the flag of the first record is gone.
C16_Witness ==
  /\ pc = "components"
  /\ ln = 4
  /\ IsComponentLine(section[1])
  /\ section[2] = <<[kind |-> "word", text |-> "MIRRORX"]>>
  /\ section[3] = section[1]
  /\ Len(components) = 1
  /\ components[1].data = [mirror_x |-> FALSE, mirror_y |-> FALSE, flip |-> FALSE]

\* C13: a second run of the resolution on the same input, by parse() or by
\* _calculate_pin_positions, leaves the resolved-pin list as it was after
\* the first run.
C13_SecondRunSameList == (Len(passes) >= 2) => (passes[2] = passes[1])

ShapesFound ==
  \E i \in 1..Len(content) :
    /\ content[i] = <<[kind |-> "start", tag |-> "SHAPES"]>>
    /\ \E j \in (i + 1)..Len(content) :
         content[j] = <<[kind |-> "end", tag |-> "SHAPES"]>>

\* C14: when the SHAPES section is not found, the shape table stays empty,
\* no pin is resolved and parse() does not raise, whatever the other
\* sections hold.
C14_NoShapesSection ==
  (~ShapesFound /\ pc \notin {"start", "board"}) =>
    /\ shapes = NoShapes
    /\ pins = <<>>
    /\ pc # "raised"

====
